---- MODULE Spec2Model ----
(***************************************************************************)
(* A model of the operation router of granted-rpc-go (src/error.go):       *)
(* Router.Register and Router.HandleMessage over the three registry maps,  *)
(* with one goroutine that registers and several that dispatch.            *)
(*                                                                         *)
(* Strings that carry JSON are modelled by the JSON value they spell       *)
(* (JNull, JNum, JStr, JObj), by NotJSON for bytes that are no JSON text   *)
(* and by EmptyBytes for a string or byte slice of length 0.               *)
(* Go errors are modelled by the pieces of their message, in order;        *)
(* fmt.Errorf("prefix: %w", e) is <<"prefix: ">> \o e and nil is <<>>.     *)
(***************************************************************************)
EXTENDS Integers, Sequences, FiniteSets, TLC

\* ------------------------------------------------------------------ bounds

\* The number of Register calls the registering goroutine makes.
MaxRegisters == 2

\* The goroutines that call HandleMessage.
Callers == {"c1", "c2"}

\* ------------------------------------------------------------- JSON values

JNull == [t |-> "null"]
JNum(n) == [t |-> "num", n |-> n]
JStr(s) == [t |-> "str", s |-> s]
JObj(o) == [t |-> "obj", o |-> o]
NotJSON == [t |-> "text"]
EmptyBytes == [t |-> "empty"]

\* A Go map with no keys, and m[k] = v on a Go map.
EmptyMap == [x \in {} |-> x]
MapSet(m, k, v) == [x \in DOMAIN m \cup {k} |-> IF x = k THEN v ELSE m[x]]

\* The nil error, and fmt.Errorf(prefix + "%w", e).
Nil == <<>>
Errorf(prefix, e) == <<prefix>> \o e

\* A string field that is not valid UTF-8.
BadUTF8 == "\\xff"

\* ------------------------------------------------------- protobuf messages

\* The string fields of each message type of the schema.
MessageFields ==
    [SayHelloRequest |-> {"greeting"}, SayHelloResponse |-> {"reply"}]

\* The message of type ty with every field at its default.
ZeroValue(ty) == [type |-> ty, fields |-> [f \in MessageFields[ty] |-> ""]]

\* protojson.Unmarshal(raw, m) with the default options, m an empty message
\* of type ty: the bytes must spell a JSON object, every key must be a field
\* of ty (DiscardUnknown is not set) and every value a string or null.
protojsonUnmarshal(raw, ty) ==
    IF raw.t # "obj"
    THEN [err |-> <<"proto: syntax error: unexpected token">>, value |-> ZeroValue(ty)]
    ELSE IF \E k \in DOMAIN raw.o : k \notin MessageFields[ty]
    THEN [err |-> <<"proto: unknown field ",
                    CHOOSE k \in DOMAIN raw.o : k \notin MessageFields[ty]>>,
          value |-> ZeroValue(ty)]
    ELSE IF \E k \in DOMAIN raw.o : raw.o[k].t \notin {"str", "null"}
    THEN [err |-> <<"proto: invalid value for string type">>, value |-> ZeroValue(ty)]
    ELSE [err |-> Nil,
          value |-> [type |-> ty,
                     fields |-> [f \in MessageFields[ty] |->
                                   IF f \in DOMAIN raw.o /\ raw.o[f].t = "str"
                                   THEN raw.o[f].s ELSE ""]]]

\* protojson.Marshal(m): the fields that are not at their default, under
\* their JSON names; a string that is not valid UTF-8 is an error.
protojsonMarshal(m) ==
    IF \E f \in DOMAIN m.fields : m.fields[f] = BadUTF8
    THEN [err |-> <<"proto: field contains invalid UTF-8">>, bytes |-> EmptyBytes]
    ELSE [err |-> Nil,
          bytes |-> JObj([f \in {g \in DOMAIN m.fields : m.fields[g] # ""} |->
                            JStr(m.fields[f])])]

\* ------------------------------------------------------------ the envelope

\* The zero routerMessage.
ZeroMessage == [Procedure |-> "", Request |-> EmptyBytes, Response |-> EmptyBytes]

\* json.Unmarshal([]byte(input), &msg) for msg a zero routerMessage: null
\* leaves msg as it is, a JSON value that is no object is an error, and in
\* an object a null or missing "procedure" leaves Procedure empty, any
\* other value that is no string is an error, and "request" and "response"
\* keep their raw bytes.
jsonUnmarshal(input) ==
    IF input.t \in {"text", "empty"}
    THEN [err |-> <<"invalid character">>, msg |-> ZeroMessage]
    ELSE IF input.t = "null"
    THEN [err |-> Nil, msg |-> ZeroMessage]
    ELSE IF input.t # "obj"
    THEN [err |-> <<"json: cannot unmarshal into Go value of type routerMessage">>,
          msg |-> ZeroMessage]
    ELSE IF "procedure" \in DOMAIN input.o /\ input.o["procedure"].t \notin {"str", "null"}
    THEN [err |-> <<"json: cannot unmarshal into Go struct field routerMessage.procedure">>,
          msg |-> ZeroMessage]
    ELSE [err |-> Nil,
          msg |-> [Procedure |-> IF "procedure" \in DOMAIN input.o
                                    /\ input.o["procedure"].t = "str"
                                 THEN input.o["procedure"].s ELSE "",
                   Request |-> IF "request" \in DOMAIN input.o
                               THEN input.o["request"] ELSE EmptyBytes,
                   Response |-> IF "response" \in DOMAIN input.o
                                THEN input.o["response"] ELSE EmptyBytes]]

\* json.Marshal of a routerMessage whose tags lack omitempty: an empty
\* RawMessage is written as null.
jsonMarshalNoOmitEmpty(outMsg) ==
    [err |-> Nil,
     out |-> JObj([procedure |-> JStr(outMsg.Procedure),
                   request |-> IF outMsg.Request = EmptyBytes THEN JNull ELSE outMsg.Request,
                   response |-> IF outMsg.Response = EmptyBytes THEN JNull
                                ELSE outMsg.Response])]

\* json.Marshal(outMsg): "procedure" always, "request" and "response" only
\* when their bytes are not empty (omitempty).
jsonMarshal(outMsg) ==
    LET keys == {"procedure"}
                \cup (IF outMsg.Request = EmptyBytes THEN {} ELSE {"request"})
                \cup (IF outMsg.Response = EmptyBytes THEN {} ELSE {"response"})
    IN  IF outMsg.Request = NotJSON \/ outMsg.Response = NotJSON
        THEN [err |-> <<"json: error calling MarshalJSON for type json.RawMessage">>,
              out |-> EmptyBytes]
        ELSE [err |-> Nil,
              out |-> JObj([k \in keys |->
                              CASE k = "procedure" -> JStr(outMsg.Procedure)
                                [] k = "request" -> outMsg.Request
                                [] k = "response" -> outMsg.Response])]

\* ---------------------------------------------------------------- Go values

\* The values Register is given as prototypes and handlers: a pointer to a
\* message, a message passed by value, a function of (ctx, *in) to
\* (out, error) with the body it runs, and a value that is no function.
Ptr(ty) == [kind |-> "ptr", elem |-> ty]
Struct(ty) == [kind |-> "struct", elem |-> ty]
Func(in, out, body) == [kind |-> "func", in |-> in, out |-> out, body |-> body]
NotFunc == [kind |-> "string"]

\* A nil interface value, and a local not yet assigned.
NilValue == [type |-> "nil", fields |-> EmptyMap]
Unset == [kind |-> "unset"]

\* reflect.New(reflect.TypeOf(inputType).Elem()).Interface(): a fresh zero
\* message behind a pointer when inputType is a pointer; Elem panics on a
\* struct type.
reflectNew(inputType) ==
    IF inputType.kind = "ptr"
    THEN [panic |-> FALSE, value |-> ZeroValue(inputType.elem)]
    ELSE [panic |-> TRUE, value |-> NilValue]

\* What each handler body returns for (ctx, in).
HandlerBody(body, ctx, in) ==
    CASE body = "echo" ->
           [out |-> [type |-> "SayHelloResponse",
                     fields |-> [reply |-> in.fields["greeting"]]],
            err |-> Nil]
      [] body = "swap" ->
           [out |-> [type |-> "SayHelloRequest",
                     fields |-> [greeting |-> in.fields["reply"]]],
            err |-> Nil]
      [] body = "badutf8" ->
           [out |-> [type |-> "SayHelloResponse", fields |-> [reply |-> BadUTF8]],
            err |-> Nil]
      [] body = "boom" -> [out |-> NilValue, err |-> <<"boom">>]
      [] OTHER -> [out |-> NilValue, err |-> Nil]

\* reflect.ValueOf(fn).Call(ctx, inputValue): panics when fn is no function
\* or its parameter type is not the type of inputValue; else runs the body.
reflectCall(fn, ctx, inputValue) ==
    IF fn.kind # "func" \/ fn.in # inputValue.type
    THEN [panic |-> TRUE, results |-> [out |-> NilValue, err |-> Nil]]
    ELSE [panic |-> FALSE, results |-> HandlerBody(fn.body, ctx, inputValue)]

\* ------------------------------------------------------------ the test data

\* Request payloads: a greeting, the empty object, a greeting with a field
\* SayHelloRequest does not have, and a greeting of the wrong JSON type.
Hello == JObj([greeting |-> JStr("hello")])
EmptyObject == JObj(EmptyMap)
HelloExtra == JObj([greeting |-> JStr("hello"), extra |-> JStr("x")])
HelloNumber == JObj([greeting |-> JNum(1)])
Reply == JObj([reply |-> JStr("hi")])

\* The envelope {"procedure": p, "request": req}.
Envelope(p, req) == JObj([procedure |-> JStr(p), request |-> req])

\* The input strings HandleMessage is called with.
Inputs ==
    { NotJSON,
      JNull,
      JNum(1),
      EmptyObject,
      JObj([procedure |-> JNum(1), request |-> Hello]),
      Envelope("", Hello),
      Envelope("svc/Missing", EmptyObject),
      Envelope("svc/M", Hello),
      Envelope("svc/M", EmptyObject),
      Envelope("svc/M", HelloExtra),
      Envelope("svc/M", HelloNumber),
      Envelope("svc/N", Hello),
      JObj([procedure |-> JStr("svc/M")]),
      JObj([procedure |-> JStr("svc/M"), request |-> Hello, response |-> Reply]) }

\* The arguments Register is called with.
RegisterArgs ==
    { [operation |-> "svc/M", inputType |-> Ptr("SayHelloRequest"),
       outputType |-> Ptr("SayHelloResponse"),
       handler |-> Func("SayHelloRequest", "SayHelloResponse", "echo")],
      [operation |-> "svc/M", inputType |-> Ptr("SayHelloResponse"),
       outputType |-> Ptr("SayHelloRequest"),
       handler |-> Func("SayHelloResponse", "SayHelloRequest", "swap")],
      [operation |-> "svc/N", inputType |-> Ptr("SayHelloRequest"),
       outputType |-> Ptr("SayHelloResponse"),
       handler |-> Func("SayHelloRequest", "SayHelloResponse", "boom")],
      [operation |-> "svc/N", inputType |-> Ptr("SayHelloRequest"),
       outputType |-> Ptr("SayHelloResponse"),
       handler |-> Func("SayHelloRequest", "SayHelloResponse", "badutf8")],
      [operation |-> "", inputType |-> Ptr("SayHelloRequest"),
       outputType |-> Ptr("SayHelloResponse"),
       handler |-> Func("SayHelloRequest", "SayHelloResponse", "echo")],
      [operation |-> "svc/M", inputType |-> Struct("SayHelloRequest"),
       outputType |-> Struct("SayHelloResponse"),
       handler |-> Func("SayHelloRequest", "SayHelloResponse", "echo")],
      [operation |-> "svc/N", inputType |-> Ptr("SayHelloRequest"),
       outputType |-> Ptr("SayHelloResponse"),
       handler |-> Func("SayHelloRequest", "proto.Message", "nilout")],
      [operation |-> "svc/N", inputType |-> Ptr("SayHelloRequest"),
       outputType |-> Ptr("SayHelloResponse"),
       handler |-> NotFunc] }

\* The context each caller passes to HandleMessage.
Ctx(c) == <<"ctx", c>>

\* ------------------------------------------------------------------- state

VARIABLES
    operationFuncs,   \* Router.operationFuncs
    inputTypes,       \* Router.inputTypes
    outputTypes,      \* Router.outputTypes
    reg,              \* the registering goroutine: the line of Register it is at
    call,             \* each caller's HandleMessage frame: line, locals, result
    invoked,          \* each caller's handler invocations, in order
    steps,            \* each caller's executed steps of HandleMessage, in order
    raced,            \* whether a Register call was in flight during the call
    lastRegister,     \* per name, the arguments of the last Register call that returned
    crashed           \* the runtime has thrown a fatal error

vars == <<operationFuncs, inputTypes, outputTypes, reg, call, invoked, steps,
          raced, lastRegister, crashed>>

\* A HandleMessage frame before the call.
IdleFrame ==
    [pc |-> "idle", input |-> EmptyBytes, ctx |-> <<>>, msg |-> ZeroMessage,
     fn |-> Unset, inputType |-> Unset, inputValue |-> NilValue,
     results |-> [out |-> NilValue, err |-> Nil],
     out |-> EmptyBytes, err |-> Nil]

\* NewRouter(): three empty maps; nothing is running.
Init ==
    /\ operationFuncs = EmptyMap
    /\ inputTypes = EmptyMap
    /\ outputTypes = EmptyMap
    /\ reg = [pc |-> "idle", args |-> Unset, n |-> 0]
    /\ call = [c \in Callers |-> IdleFrame]
    /\ invoked = [c \in Callers |-> <<>>]
    /\ steps = [c \in Callers |-> <<>>]
    /\ raced = [c \in Callers |-> FALSE]
    /\ lastRegister = EmptyMap
    /\ crashed = FALSE

InFlight(c) == call[c].pc \in {"L94", "L100", "L106", "L112", "L121", "L133"}

\* ---------------------------------------------------------------- Register

\* A goroutine calls Register(operation, inputType, outputType, handler).
RegisterBegin(a) ==
    /\ ~crashed
    /\ reg.pc = "idle"
    /\ reg.n < MaxRegisters
    /\ reg' = [pc |-> "L86", args |-> a, n |-> reg.n + 1]
    /\ raced' = [c \in Callers |-> raced[c] \/ InFlight(c)]
    /\ UNCHANGED <<operationFuncs, inputTypes, outputTypes, call, invoked, steps, crashed, lastRegister>>

\* r.operationFuncs[operation] = handler
Register86 ==
    /\ ~crashed
    /\ reg.pc = "L86"
    /\ operationFuncs' = MapSet(operationFuncs, reg.args.operation, reg.args.handler)
    /\ reg' = [reg EXCEPT !.pc = "L87"]
    /\ UNCHANGED <<inputTypes, outputTypes, call, invoked, steps, raced, crashed, lastRegister>>

\* Line 87 writing the input type only for a name that has none yet.
Register87KeepFirst ==
    /\ ~crashed
    /\ reg.pc = "L87"
    /\ inputTypes' = IF reg.args.operation \in DOMAIN inputTypes THEN inputTypes
                     ELSE MapSet(inputTypes, reg.args.operation, reg.args.inputType)
    /\ reg' = [reg EXCEPT !.pc = "L88"]
    /\ UNCHANGED <<operationFuncs, outputTypes, call, invoked, steps, raced, crashed, lastRegister>>

\* Register without its line 87: the input type is never stored.
Register87Skip ==
    /\ ~crashed
    /\ reg.pc = "L87"
    /\ reg' = [reg EXCEPT !.pc = "L88"]
    /\ UNCHANGED <<operationFuncs, inputTypes, outputTypes, call, invoked, steps, raced,
                   crashed, lastRegister>>

\* r.inputTypes[operation] = inputType
Register87 ==
    /\ ~crashed
    /\ reg.pc = "L87"
    /\ inputTypes' = MapSet(inputTypes, reg.args.operation, reg.args.inputType)
    /\ reg' = [reg EXCEPT !.pc = "L88"]
    /\ UNCHANGED <<operationFuncs, outputTypes, call, invoked, steps, raced, crashed, lastRegister>>

\* r.outputTypes[operation] = outputType, and Register returns.
Register88 ==
    /\ ~crashed
    /\ reg.pc = "L88"
    /\ outputTypes' = MapSet(outputTypes, reg.args.operation, reg.args.outputType)
    /\ reg' = [reg EXCEPT !.pc = "idle", !.args = Unset]
    /\ lastRegister' = MapSet(lastRegister, reg.args.operation, reg.args)
    /\ UNCHANGED <<operationFuncs, inputTypes, call, invoked, steps, raced, crashed>>

\* ----------------------------------------------------------- HandleMessage

\* A return that puts a failure on the wire as an ErrorPayload.
ReturnErrorPayload(l, out, err) ==
    [l EXCEPT !.pc = "returned",
              !.out = IF err = Nil THEN out
                      ELSE JObj([error |-> JObj([message |-> JStr(err[1])])]),
              !.err = err]

\* return out, err
Return(l, out, err) == [l EXCEPT !.pc = "returned", !.out = out, !.err = err]

\* An unrecovered panic leaves HandleMessage without a return value.
Panic(l) == [l EXCEPT !.pc = "panicked"]

\* Lines 93-97: decode the envelope, return on failure.
Step94(l) ==
    LET r == jsonUnmarshal(l.input)
    IN  IF r.err # Nil
        THEN Return(l, EmptyBytes, Errorf("failed to unmarshal message: ", r.err))
        ELSE [l EXCEPT !.msg = r.msg, !.pc = "L100"]

\* The lookup with its ok ignored: a missing handler is carried on as nil.
Step100IgnoreOk(l, funcs) ==
    [l EXCEPT !.fn = IF l.msg.Procedure \in DOMAIN funcs
                     THEN funcs[l.msg.Procedure] ELSE Unset,
              !.pc = "L106"]

\* Lines 100-103: fn, ok := r.operationFuncs[msg.Procedure].
Step100(l, funcs) ==
    IF l.msg.Procedure \notin DOMAIN funcs
    THEN Return(l, EmptyBytes, <<"no handler found for operation ", l.msg.Procedure>>)
    ELSE [l EXCEPT !.fn = funcs[l.msg.Procedure], !.pc = "L106"]

\* Lines 106-109: inputType, ok := r.inputTypes[msg.Procedure].
Step106(l, types) ==
    IF l.msg.Procedure \notin DOMAIN types
    THEN Return(l, EmptyBytes, <<"no input type found for operation ", l.msg.Procedure>>)
    ELSE [l EXCEPT !.inputType = types[l.msg.Procedure], !.pc = "L112"]

\* The decode with its error ignored: the handler gets what was decoded.
Step112IgnoreError(l) ==
    LET new == reflectNew(l.inputType)
        r == protojsonUnmarshal(l.msg.Request, new.value.type)
    IN  IF new.panic THEN Panic(l)
        ELSE [l EXCEPT !.inputValue = r.value, !.pc = "L121"]

\* Lines 112-118: a fresh input value, and the request decoded into it.
Step112(l) ==
    LET new == reflectNew(l.inputType)
        r == protojsonUnmarshal(l.msg.Request, new.value.type)
    IN  IF new.panic THEN Panic(l)
        ELSE IF r.err # Nil
        THEN Return(l, EmptyBytes, Errorf("failed to unmarshal request: ", r.err))
        ELSE [l EXCEPT !.inputValue = r.value, !.pc = "L121"]

\* The call with the handler's error ignored: the output is encoded anyway.
Step121IgnoreError(l) ==
    LET r == reflectCall(l.fn, l.ctx, l.inputValue)
    IN  IF r.panic THEN Panic(l)
        ELSE [l EXCEPT !.results = r.results, !.pc = "L133"]

\* Lines 121-130: call the handler, return its error if it has one.
Step121(l) ==
    LET r == reflectCall(l.fn, l.ctx, l.inputValue)
    IN  IF r.panic THEN Panic(l)
        ELSE IF r.results.err # Nil
        THEN Return([l EXCEPT !.results = r.results], EmptyBytes, r.results.err)
        ELSE [l EXCEPT !.results = r.results, !.pc = "L133"]

\* Lines 133-153: assert the output is a message, encode it, wrap it in the
\* outbound envelope and encode that.
Step133(l) ==
    LET m == protojsonMarshal(l.results.out)
        outMsg == [Procedure |-> l.msg.Procedure, Request |-> EmptyBytes,
                   Response |-> m.bytes]
        j == jsonMarshal(outMsg)
    IN  IF l.results.out = NilValue THEN Panic(l)
        ELSE IF m.err # Nil
        THEN Return(l, EmptyBytes, Errorf("failed to marshal response: ", m.err))
        ELSE IF j.err # Nil
        THEN Return(l, EmptyBytes, Errorf("failed to marshal response message: ", j.err))
        ELSE Return(l, j.out, Nil)

\* The call made with a fresh background context, not the caller's.
InvocationBackground(l) ==
    IF reflectCall(l.fn, l.ctx, l.inputValue).panic
    THEN <<>>
    ELSE << [handler |-> l.fn, ctx |-> <<"ctx", "background">>, in |-> l.inputValue] >>

\* The handler invocation Step121 makes, if it makes one.
Invocation(l) ==
    IF reflectCall(l.fn, l.ctx, l.inputValue).panic
    THEN <<>>
    ELSE << [handler |-> l.fn, ctx |-> l.ctx, in |-> l.inputValue] >>

\* A goroutine calls HandleMessage(ctx, input).
Begin(c, input) ==
    /\ ~crashed
    /\ call[c].pc = "idle"
    /\ call' = [call EXCEPT ![c] = [IdleFrame EXCEPT !.pc = "L94", !.input = input,
                                                     !.ctx = Ctx(c)]]
    /\ invoked' = [invoked EXCEPT ![c] = <<>>]
    /\ steps' = [steps EXCEPT ![c] = <<>>]
    /\ raced' = [raced EXCEPT ![c] = reg.pc # "idle"]
    /\ UNCHANGED <<operationFuncs, inputTypes, outputTypes, reg, crashed, lastRegister>>

\* The envelope decoded into a variable every call shares, not a local.
UnmarshalShared(c) ==
    /\ ~crashed
    /\ call[c].pc = "L94"
    /\ call' = [d \in Callers |->
                  IF d = c THEN Step94(call[c])
                  ELSE IF InFlight(d) /\ Step94(call[c]).pc = "L100"
                       THEN [call[d] EXCEPT !.msg = Step94(call[c]).msg]
                       ELSE call[d]]
    /\ steps' = [steps EXCEPT ![c] = Append(@, "envelope decode")]
    /\ UNCHANGED <<operationFuncs, inputTypes, outputTypes, reg, invoked, raced, crashed, lastRegister>>

\* Lines 93-97, on the caller's own msg.
Unmarshal(c) ==
    /\ ~crashed
    /\ call[c].pc = "L94"
    /\ call' = [call EXCEPT ![c] = Step94(call[c])]
    /\ steps' = [steps EXCEPT ![c] = Append(@, "envelope decode")]
    /\ UNCHANGED <<operationFuncs, inputTypes, outputTypes, reg, invoked, raced, crashed, lastRegister>>

\* The read of operationFuncs. While Register is writing that map the read
\* is a data race: it sees the map before the write or after it, or the
\* runtime throws "concurrent map read and map write".
LookupHandler(c) ==
    /\ ~crashed
    /\ call[c].pc = "L100"
    /\ steps' = [steps EXCEPT ![c] = Append(@, "lookup")]
    /\ \/ /\ call' = [call EXCEPT ![c] = Step100(call[c], operationFuncs)]
          /\ UNCHANGED crashed
       \/ /\ reg.pc = "L86"
          /\ call' = [call EXCEPT ![c] = Step100(call[c],
                          MapSet(operationFuncs, reg.args.operation, reg.args.handler))]
          /\ UNCHANGED crashed
       \/ /\ reg.pc = "L86"
          /\ call' = [call EXCEPT ![c].pc = "fatal"]
          /\ crashed' = TRUE
    /\ UNCHANGED <<operationFuncs, inputTypes, outputTypes, reg, invoked, raced, lastRegister>>

\* The read of inputTypes, racing with line 87 in the same way.
LookupInputType(c) ==
    /\ ~crashed
    /\ call[c].pc = "L106"
    /\ \/ /\ call' = [call EXCEPT ![c] = Step106(call[c], inputTypes)]
          /\ UNCHANGED crashed
       \/ /\ reg.pc = "L87"
          /\ call' = [call EXCEPT ![c] = Step106(call[c],
                          MapSet(inputTypes, reg.args.operation, reg.args.inputType))]
          /\ UNCHANGED crashed
       \/ /\ reg.pc = "L87"
          /\ call' = [call EXCEPT ![c].pc = "fatal"]
          /\ crashed' = TRUE
    /\ UNCHANGED <<operationFuncs, inputTypes, outputTypes, reg, invoked, steps, raced, lastRegister>>

DecodeRequest(c) ==
    /\ ~crashed
    /\ call[c].pc = "L112"
    /\ call' = [call EXCEPT ![c] = Step112(call[c])]
    /\ steps' = [steps EXCEPT ![c] = Append(@, "request decode")]
    /\ UNCHANGED <<operationFuncs, inputTypes, outputTypes, reg, invoked, raced, crashed, lastRegister>>

\* The handler removed from the registry once it has been called.
CallHandlerOnce(c) ==
    /\ ~crashed
    /\ call[c].pc = "L121"
    /\ call' = [call EXCEPT ![c] = Step121(call[c])]
    /\ invoked' = [invoked EXCEPT ![c] = @ \o Invocation(call[c])]
    /\ steps' = [steps EXCEPT ![c] = Append(@, "handler invocation")]
    /\ operationFuncs' = [n \in DOMAIN operationFuncs \ {call[c].msg.Procedure} |->
                            operationFuncs[n]]
    /\ UNCHANGED <<inputTypes, outputTypes, reg, raced, crashed, lastRegister>>

\* Lines 121-130, with the record of the handler's invocation.
CallHandler(c) ==
    /\ ~crashed
    /\ call[c].pc = "L121"
    /\ call' = [call EXCEPT ![c] = Step121(call[c])]
    /\ invoked' = [invoked EXCEPT ![c] = @ \o Invocation(call[c])]
    /\ steps' = [steps EXCEPT ![c] = Append(@, "handler invocation")]
    /\ UNCHANGED <<operationFuncs, inputTypes, outputTypes, reg, raced, crashed, lastRegister>>

EncodeResponse(c) ==
    /\ ~crashed
    /\ call[c].pc = "L133"
    /\ call' = [call EXCEPT ![c] = Step133(call[c])]
    /\ steps' = [steps EXCEPT ![c] = Append(@, "response encode")]
    /\ UNCHANGED <<operationFuncs, inputTypes, outputTypes, reg, invoked, raced, crashed, lastRegister>>

\* HandleMessage has returned to its caller, who is free to call again.
Finish(c) ==
    /\ ~crashed
    /\ call[c].pc = "returned"
    /\ call' = [call EXCEPT ![c] = IdleFrame]
    /\ invoked' = [invoked EXCEPT ![c] = <<>>]
    /\ steps' = [steps EXCEPT ![c] = <<>>]
    /\ raced' = [raced EXCEPT ![c] = FALSE]
    /\ UNCHANGED <<operationFuncs, inputTypes, outputTypes, reg, crashed, lastRegister>>

\* ------------------------------------------------------ the specifications

\* The router with the goroutines cs calling HandleMessage on the inputs ins
\* while one goroutine calls Register with the arguments args.
NextOf(cs, ins, args) ==
    \/ \E a \in args : RegisterBegin(a)
    \/ Register86
    \/ Register87
    \/ Register88
    \/ \E c \in cs, input \in ins : Begin(c, input)
    \/ \E c \in cs : Unmarshal(c)
    \/ \E c \in cs : LookupHandler(c)
    \/ \E c \in cs : LookupInputType(c)
    \/ \E c \in cs : DecodeRequest(c)
    \/ \E c \in cs : CallHandler(c)
    \/ \E c \in cs : EncodeResponse(c)
    \/ \E c \in cs : Finish(c)

\* One caller, every input and every registration.
Next == NextOf({"c1"}, Inputs, RegisterArgs)

Spec == Init /\ [][Next]_vars

\* Every caller at once, on the inputs and registrations of two operations.
ConcurrentInputs ==
    { NotJSON,
      Envelope("svc/Missing", EmptyObject),
      Envelope("svc/M", Hello),
      Envelope("svc/M", EmptyObject),
      Envelope("svc/N", Hello) }

ConcurrentArgs == {a \in RegisterArgs : a.handler.kind = "func"
                                        /\ a.handler.body \in {"echo", "swap", "boom"}
                                        /\ a.inputType.kind = "ptr"
                                        /\ a.operation # ""}

NextConcurrent == NextOf(Callers, ConcurrentInputs, ConcurrentArgs)

SpecConcurrent == Init /\ [][NextConcurrent]_vars

\* ------------------------------------------------------------- the claims

\* The five kinds of failure, read off the error HandleMessage returns: the
\* four it wraps are told by its prefix, the handler's own error is
\* returned as it is.
ErrorKind(err) ==
    CASE err = Nil -> "none"
      [] Head(err) = "failed to unmarshal message: " -> "MalformedEnvelope"
      [] Head(err) = "no handler found for operation " -> "UnknownOperation"
      [] Head(err) = "no input type found for operation " -> "UnknownOperation"
      [] Head(err) = "failed to unmarshal request: " -> "RequestDecodeError"
      [] Head(err) = "failed to marshal response: " -> "ResponseEncodeError"
      [] Head(err) = "failed to marshal response message: " -> "ResponseEncodeError"
      [] OTHER -> "HandlerError"

\* The call of caller c is over: it returned, or it left by a panic.
Ended(c) == call[c].pc \in {"returned", "panicked"}

\* The procedure an input string names, "" when it names none.
ProcedureOf(input) ==
    IF input.t = "obj" /\ "procedure" \in DOMAIN input.o /\ input.o["procedure"].t = "str"
    THEN input.o["procedure"].s ELSE ""

\* A well-formed inbound envelope: an object with a non-empty procedure and
\* a request, and no response.
WellFormedInbound(input) ==
    /\ input.t = "obj"
    /\ ProcedureOf(input) # ""
    /\ "request" \in DOMAIN input.o
    /\ "response" \notin DOMAIN input.o

\* C1. Dispatch correctness: when the handler of a call was invoked and
\* returned an output y that encodes, and no error, the call returns no
\* error and the envelope {procedure: p, response: encode(y)} with no
\* request field, p the procedure the input names.
C1_DispatchCorrect ==
    \A c \in Callers :
        (Ended(c) /\ invoked[c] # <<>>) =>
            LET inv == invoked[c][1]
                r == HandlerBody(inv.handler.body, inv.ctx, inv.in)
                e == protojsonMarshal(r.out)
            IN  (r.err = Nil /\ r.out # NilValue /\ e.err = Nil) =>
                    /\ call[c].pc = "returned"
                    /\ call[c].err = Nil
                    /\ call[c].out.t = "obj"
                    /\ DOMAIN call[c].out.o = {"procedure", "response"}
                    /\ call[c].out.o["procedure"] = JStr(ProcedureOf(call[c].input))
                    /\ call[c].out.o["response"] = e.bytes

\* The echo of {"greeting":"hello"} under svc/M has been returned.
C1_Witness ==
    /\ call["c1"].pc = "returned"
    /\ call["c1"].input = Envelope("svc/M", Hello)
    /\ call["c1"].err = Nil
    /\ call["c1"].out = JObj([procedure |-> JStr("svc/M"),
                              response |-> JObj([reply |-> JStr("hello")])])

\* C2. Unknown operation: a call on a well-formed envelope whose procedure
\* has no handler in a registry that no Register call touched during the
\* call ends at the lookup, with an UnknownOperation error that names the
\* procedure, no output string and no handler invoked.
C2_UnknownOperation ==
    [][\A c \in Callers :
          ( /\ InFlight(c)
            /\ ~raced[c]
            /\ WellFormedInbound(call[c].input)
            /\ ProcedureOf(call[c].input) \notin DOMAIN operationFuncs
            /\ call'[c].pc \notin {"L94", "L100"} ) =>
          ( /\ call[c].pc = "L100"
            /\ call'[c].pc = "returned"
            /\ ErrorKind(call'[c].err) = "UnknownOperation"
            /\ call'[c].err[Len(call'[c].err)] = ProcedureOf(call[c].input)
            /\ call'[c].out = EmptyBytes
            /\ invoked'[c] = <<>> )]_vars

\* svc/Missing was looked up while svc/M was registered, and refused.
C2_Witness ==
    /\ call["c1"].pc = "returned"
    /\ ~raced["c1"]
    /\ "svc/M" \in DOMAIN operationFuncs
    /\ call["c1"].input = Envelope("svc/Missing", EmptyObject)
    /\ call["c1"].err = <<"no handler found for operation ", "svc/Missing">>

\* An input string that is no JSON text of the envelope's shape: no JSON at
\* all, a JSON value that is no object, or an object whose procedure is
\* neither a string nor missing.
NotEnvelopeJSON(input) ==
    \/ input.t # "obj"
    \/ /\ "procedure" \in DOMAIN input.o
       /\ input.o["procedure"].t \notin {"str", "null"}

\* C3. Malformed JSON: a call on an input that is no JSON text of the
\* envelope's shape, with no Register call under way, returns a MalformedEnvelope error and no output, without
\* a registry lookup and without invoking a handler.
C3_MalformedJSON ==
    \A c \in Callers :
        (Ended(c) /\ ~raced[c] /\ NotEnvelopeJSON(call[c].input)) =>
            /\ call[c].pc = "returned"
            /\ ErrorKind(call[c].err) = "MalformedEnvelope"
            /\ call[c].out = EmptyBytes
            /\ steps[c] = <<"envelope decode">>
            /\ invoked[c] = <<>>

\* C4. Empty procedure: a call on a JSON object whose procedure is empty or
\* absent, with no Register call under way, returns a MalformedEnvelope error and invokes no handler.
C4_EmptyProcedure ==
    \A c \in Callers :
        (Ended(c) /\ ~raced[c] /\ call[c].input.t = "obj" /\ ~NotEnvelopeJSON(call[c].input)
                  /\ ProcedureOf(call[c].input) = "") =>
            /\ call[c].pc = "returned"
            /\ ErrorKind(call[c].err) = "MalformedEnvelope"
            /\ invoked[c] = <<>>

\* C5. Handler failure propagation: when the handler of a call returned an
\* error, the call returns an error whose message contains the handler's,
\* with no output string, and the response is never encoded.
C5_HandlerFailure ==
    \A c \in Callers :
        (Ended(c) /\ invoked[c] # <<>>) =>
            LET inv == invoked[c][1]
                r == HandlerBody(inv.handler.body, inv.ctx, inv.in)
            IN  r.err # Nil =>
                    /\ call[c].pc = "returned"
                    /\ \E i \in 0..(Len(call[c].err) - Len(r.err)) :
                          SubSeq(call[c].err, i + 1, i + Len(r.err)) = r.err
                    /\ call[c].out = EmptyBytes
                    /\ steps[c][Len(steps[c])] = "handler invocation"

\* The handler of svc/N failed with "boom" and the call returned that.
C5_Witness ==
    /\ call["c1"].pc = "returned"
    /\ Len(invoked["c1"]) = 1
    /\ invoked["c1"][1].handler.body = "boom"
    /\ call["c1"].err = <<"boom">>

\* C6. Request decode failure: when the request of a call does not decode
\* into a fresh value of the registered input type, the call returns a
\* RequestDecodeError that wraps the decoder's error, and the handler is
\* not invoked. (A prototype that is no pointer is never decoded into.)
C6_RequestDecodeFailure ==
    \A c \in Callers :
        LET l == call[c]
        IN  (Ended(c) /\ "request decode" \in {steps[c][i] : i \in DOMAIN steps[c]}
                      /\ l.inputType.kind = "ptr"
                      /\ l.input.t = "obj"
                      /\ "request" \in DOMAIN l.input.o
                      /\ protojsonUnmarshal(l.input.o["request"], l.inputType.elem).err # Nil) =>
                /\ l.pc = "returned"
                /\ ErrorKind(l.err) = "RequestDecodeError"
                /\ Tail(l.err) = protojsonUnmarshal(l.input.o["request"], l.inputType.elem).err
                /\ l.out = EmptyBytes
                /\ invoked[c] = <<>>

\* A greeting of the wrong JSON type was refused for svc/M.
C6_Witness ==
    /\ call["c1"].pc = "returned"
    /\ call["c1"].input = Envelope("svc/M", HelloNumber)
    /\ call["c1"].inputType = Ptr("SayHelloRequest")
    /\ call["c1"].err = <<"failed to unmarshal request: ",
                          "proto: invalid value for string type">>

\* The payload raw cut down to the fields of type ty.
KnownFields(raw, ty) ==
    JObj([k \in DOMAIN raw.o \cap MessageFields[ty] |-> raw.o[k]])

\* C7. Unknown-field forward compatibility: when the request of a call that
\* no Register call overlaps is a valid payload of the registered input type plus fields the type does not
\* have, the call does not fail with a decode error and the handler is
\* invoked with the value decoded from the known fields.
C7_UnknownFieldsIgnored ==
    \A c \in Callers :
        LET l == call[c]
        IN  (Ended(c) /\ ~raced[c]
                      /\ "request decode" \in {steps[c][i] : i \in DOMAIN steps[c]}
                      /\ l.inputType.kind = "ptr"
                      /\ l.fn.kind = "func"
                      /\ l.fn.in = l.inputType.elem
                      /\ l.input.t = "obj"
                      /\ "request" \in DOMAIN l.input.o
                      /\ l.input.o["request"].t = "obj"
                      /\ ~(DOMAIN l.input.o["request"].o \subseteq MessageFields[l.inputType.elem])
                      /\ protojsonUnmarshal(KnownFields(l.input.o["request"], l.inputType.elem),
                                            l.inputType.elem).err = Nil) =>
                /\ ErrorKind(l.err) # "RequestDecodeError"
                /\ Len(invoked[c]) = 1
                /\ invoked[c][1].in =
                     protojsonUnmarshal(KnownFields(l.input.o["request"], l.inputType.elem),
                                        l.inputType.elem).value

\* HandleMessage(ctx, input) run from its first line to its last on the
\* registry maps funcs and types, with nothing else running.
RunAlone(input, ctx, funcs, types) ==
    LET l0 == [IdleFrame EXCEPT !.pc = "L94", !.input = input, !.ctx = ctx]
        l1 == Step94(l0)
        l2 == IF l1.pc = "L100" THEN Step100(l1, funcs) ELSE l1
        l3 == IF l2.pc = "L106" THEN Step106(l2, types) ELSE l2
        l4 == IF l3.pc = "L112" THEN Step112(l3) ELSE l3
        l5 == IF l4.pc = "L121" THEN Step121(l4) ELSE l4
    IN  IF l5.pc = "L133" THEN Step133(l5) ELSE l5

\* What a call gives its caller: how it ended, the string and the error.
Result(l) == <<l.pc, l.out, l.err>>

\* C8. Concurrency without cross-talk: a call that no Register call
\* overlaps, run among any other calls, ends with exactly the result the
\* same call has when it runs alone on its own input and the registry.
C8_NoCrossTalk ==
    [][\A c \in Callers :
          (InFlight(c) /\ ~InFlight(c)' /\ ~raced[c]) =>
              Result(call'[c]) =
                  Result(RunAlone(call[c].input, call[c].ctx, operationFuncs, inputTypes))]_vars

\* Two calls of svc/M on different requests are both about to encode their
\* own response, with no Register call during either.
C8_Witness ==
    /\ call["c1"].pc = "L133" /\ call["c2"].pc = "L133"
    /\ ~raced["c1"] /\ ~raced["c2"]
    /\ call["c1"].input = Envelope("svc/M", Hello)
    /\ call["c2"].input = Envelope("svc/M", EmptyObject)
    /\ call["c1"].results.out.fields["reply"] = "hello"
    /\ call["c2"].results.out.fields["reply"] = ""

\* C9. Registry mutual exclusion: a call that runs while Register runs sees
\* a descriptor entirely before or entirely after the registration: the
\* handler and the input type it has read come from one Register call, and
\* it never finds a handler without an input type.
C9_MutualExclusion ==
    \A c \in Callers :
        /\ call[c].pc \in {"L112", "L121", "L133"} =>
              \E a \in RegisterArgs : /\ a.operation = call[c].msg.Procedure
                                      /\ a.handler = call[c].fn
                                      /\ a.inputType = call[c].inputType
        /\ call[c].pc = "returned" =>
              (call[c].err = Nil \/ Head(call[c].err) # "no input type found for operation ")

\* C10. One descriptor per name: whenever no Register call is under way, the
\* three maps hold, for each name ever registered, exactly the handler, the
\* input type and the output type of the last Register call that returned
\* for that name; and a call that no Register call overlaps has read the
\* handler and the input type of that one Register call.
C10_OneDescriptorPerName ==
    /\ reg.pc = "idle" =>
          /\ DOMAIN operationFuncs = DOMAIN lastRegister
          /\ DOMAIN inputTypes = DOMAIN lastRegister
          /\ DOMAIN outputTypes = DOMAIN lastRegister
          /\ \A n \in DOMAIN lastRegister :
                /\ operationFuncs[n] = lastRegister[n].handler
                /\ inputTypes[n] = lastRegister[n].inputType
                /\ outputTypes[n] = lastRegister[n].outputType
    /\ \A c \in Callers :
          (call[c].pc \in {"L112", "L121", "L133"} /\ ~raced[c]) =>
              /\ call[c].msg.Procedure \in DOMAIN lastRegister
              /\ call[c].fn = lastRegister[call[c].msg.Procedure].handler
              /\ call[c].inputType = lastRegister[call[c].msg.Procedure].inputType

\* svc/M answered as the echo for one caller, was then registered again as
\* the swap, and another caller has now read the swap's handler and type.
C10_Witness ==
    /\ reg.pc = "idle"
    /\ call["c1"].pc = "returned"
    /\ call["c1"].out = JObj([procedure |-> JStr("svc/M"),
                              response |-> JObj([reply |-> JStr("hello")])])
    /\ call["c2"].pc = "L112"
    /\ ~raced["c2"]
    /\ call["c2"].msg.Procedure = "svc/M"
    /\ call["c2"].fn.body = "swap"
    /\ call["c2"].inputType = Ptr("SayHelloResponse")


\* The five kinds of failure.
FiveKinds ==
    {"MalformedEnvelope", "UnknownOperation", "RequestDecodeError", "HandlerError",
     "ResponseEncodeError"}

\* An outbound envelope: an object with a procedure and a response only.
WellFormedOutbound(out) ==
    /\ out.t = "obj"
    /\ DOMAIN out.o = {"procedure", "response"}
    /\ out.o["procedure"].t = "str"
    /\ out.o["response"].t = "obj"

\* C11. Total outcome: a call that no Register call overlaps never leaves by
\* a panic, and when it returns it returns either a well-formed outbound
\* envelope and no error, or the empty string and an error of one of the
\* five kinds; whatever prototypes and handlers were registered.
C11_TotalOutcome ==
    \A c \in Callers :
        ~raced[c] =>
            /\ call[c].pc # "panicked"
            /\ call[c].pc = "returned" =>
                  \/ call[c].err = Nil /\ WellFormedOutbound(call[c].out)
                  \/ /\ call[c].err # Nil
                     /\ call[c].out = EmptyBytes
                     /\ ErrorKind(call[c].err) \in FiveKinds

\* C12. Inbound envelope well-formedness: a call, overlapped by no Register
\* call, on an envelope that names a registered operation and has both a
\* request and a response, or neither, returns a MalformedEnvelope error
\* and invokes no handler.
C12_InboundWellFormed ==
    \A c \in Callers :
        (Ended(c) /\ ~raced[c]
                  /\ call[c].input.t = "obj"
                  /\ call[c].fn # Unset
                  /\ ProcedureOf(call[c].input) # ""
                  /\ (("request" \in DOMAIN call[c].input.o)
                        <=> ("response" \in DOMAIN call[c].input.o))) =>
            /\ call[c].pc = "returned"
            /\ ErrorKind(call[c].err) = "MalformedEnvelope"
            /\ invoked[c] = <<>>

\* C13. Non-empty names: no map of the registry has the empty string as a
\* key.
C13_NonEmptyNames ==
    "" \notin (DOMAIN operationFuncs \cup DOMAIN inputTypes \cup DOMAIN outputTypes)


\* The steps of HandleMessage, in the order of its lines.
StepOrder ==
    <<"envelope decode", "lookup", "request decode", "handler invocation",
      "response encode">>

\* The step at which a call that returned err stopped.
LastStepOf(err) ==
    CASE ErrorKind(err) = "MalformedEnvelope" -> "envelope decode"
      [] ErrorKind(err) = "UnknownOperation" -> "lookup"
      [] ErrorKind(err) = "RequestDecodeError" -> "request decode"
      [] ErrorKind(err) = "HandlerError" -> "handler invocation"
      [] OTHER -> "response encode"

\* C14. Step order and no retry: the steps a call has run are always a
\* prefix of envelope decode, lookup, request decode, handler invocation,
\* response encode, so none runs twice; a call that returned stopped at the
\* step that failed, or after the last one; the handler is never invoked
\* twice; and in a call that is over and that no Register call overlapped
\* the handler was invoked exactly once if and only if the envelope decode,
\* the lookup and the request decode all succeeded.
C14_StepOrderNoRetry ==
    \A c \in Callers :
        LET l == call[c]
        IN  /\ Len(steps[c]) <= Len(StepOrder)
            /\ \A i \in DOMAIN steps[c] : steps[c][i] = StepOrder[i]
            /\ Len(invoked[c]) <= 1
            /\ l.pc = "returned" =>
                  steps[c][Len(steps[c])] = LastStepOf(l.err)
            /\ (Ended(c) /\ ~raced[c]) =>
                  ((Len(invoked[c]) = 1) <=>
                        /\ jsonUnmarshal(l.input).err = Nil
                        /\ l.fn # Unset /\ l.inputType # Unset
                        /\ l.inputType.kind = "ptr"
                        /\ protojsonUnmarshal(l.msg.Request, l.inputType.elem).err = Nil)

\* C15. Dispatch leaves the registry unchanged: every step of a
\* HandleMessage call, and a caller's return, leaves the three maps as they
\* were; a step that changes a map is a line of Register.
C15_DispatchLeavesRegistry ==
    [][ /\ (call' # call) =>
              UNCHANGED <<operationFuncs, inputTypes, outputTypes>>
        /\ (<<operationFuncs, inputTypes, outputTypes>>' #
               <<operationFuncs, inputTypes, outputTypes>>) =>
              (reg.pc \in {"L86", "L87", "L88"} /\ reg'.pc # reg.pc) ]_vars

\* A call returned a response and another returned an error, and the
\* registration they ran on is still whole in the three maps.
C15_Witness ==
    /\ call["c1"].pc = "returned" /\ call["c1"].err = Nil
    /\ call["c2"].pc = "returned" /\ call["c2"].err # Nil
    /\ ~raced["c1"] /\ ~raced["c2"]
    /\ reg.pc = "idle" /\ reg.n = 1
    /\ "svc/M" \in DOMAIN operationFuncs
    /\ "svc/M" \in DOMAIN inputTypes
    /\ "svc/M" \in DOMAIN outputTypes

\* C16. Context propagation: every handler invocation of a call receives
\* the context the caller passed to HandleMessage.
C16_ContextPropagated ==
    \A c \in Callers :
        /\ call[c].pc # "idle" => call[c].ctx = Ctx(c)
        /\ \A i \in DOMAIN invoked[c] : invoked[c][i].ctx = Ctx(c)

\* Two concurrent calls have each invoked a handler, each with its own
\* context.
C16_Witness ==
    /\ Len(invoked["c1"]) = 1 /\ invoked["c1"][1].ctx = Ctx("c1")
    /\ Len(invoked["c2"]) = 1 /\ invoked["c2"][1].ctx = Ctx("c2")
    /\ InFlight("c1") /\ InFlight("c2")

\* C17. No error envelope on the wire: a call that returns an error returns
\* the empty string with it, and a string a call returns never has an
\* "error" member, in the envelope or in its response.
C17_NoErrorEnvelope ==
    \A c \in Callers :
        call[c].pc = "returned" =>
            /\ call[c].err # Nil => call[c].out = EmptyBytes
            /\ call[c].out # EmptyBytes =>
                  /\ call[c].err = Nil
                  /\ call[c].out.t = "obj"
                  /\ "error" \notin DOMAIN call[c].out.o
                  /\ \A k \in DOMAIN call[c].out.o :
                        call[c].out.o[k].t = "obj" =>
                            "error" \notin DOMAIN call[c].out.o[k].o

\* The response of a handler did not encode, and the call returned the
\* empty string with the error.
C17_Witness ==
    /\ call["c1"].pc = "returned"
    /\ ErrorKind(call["c1"].err) = "ResponseEncodeError"
    /\ call["c1"].out = EmptyBytes

\* C18. Aligned registry maps: whenever no Register call is under way the
\* three maps have the same keys, and a call that no Register call overlaps
\* never returns "no input type found".
C18_AlignedMaps ==
    /\ reg.pc = "idle" =>
          /\ DOMAIN operationFuncs = DOMAIN inputTypes
          /\ DOMAIN inputTypes = DOMAIN outputTypes
    /\ \A c \in Callers :
          (call[c].pc = "returned" /\ ~raced[c] /\ call[c].err # Nil) =>
              Head(call[c].err) # "no input type found for operation "

\* Two names are registered and a call of one of them, overlapped by no
\* Register call, has found its handler and its input type.
C18_Witness ==
    /\ reg.pc = "idle"
    /\ DOMAIN operationFuncs = {"", "svc/M"}
    /\ ~raced["c1"]
    /\ call["c1"].pc = "L112"
    /\ call["c1"].msg.Procedure = "svc/M"

====
